---------------------------- MODULE Spec2Model ----------------------------
(***************************************************************************)
(* Model of the BMI calculator screen in src/app/index.tsx.                *)
(*                                                                         *)
(* The file holds two Page components: the react-native-reanimated screen  *)
(* (lines 1-364) and the react-native Animated screen (lines 365-738).     *)
(* pages maps each mounted screen to its state and every event reaches all *)
(* mounted screens; a behaviour of Spec mounts exactly one of the two.     *)
(*                                                                         *)
(* Numbers.  A text is a sequence of one-character strings.  The result of *)
(* Number(text) is a record: NaN, Infinity, or a finite decimal            *)
(* (-1)^neg * m * 10^e kept canonical (m has no trailing zero; zero is     *)
(* m = 0, e = 0).  The binary rounding of IEEE doubles is abstracted: a    *)
(* finite decimal stands for the double nearest to it.  The range of a     *)
(* double is kept: a magnitude of 2^1024 - 2^970 or more is Infinity and a *)
(* magnitude of 2^-1075 or less is zero.  The BMI is an exact rational     *)
(* [n, d] in lowest terms.                                                 *)
(***************************************************************************)
EXTENDS Integers, Sequences, FiniteSets, TLC

VARIABLES pages, event, input, parsed, pc

vars == <<pages, event, input, parsed, pc>>

\* Length bound of the texts fed to parseNumber in SpecParse.
MaxLen == 4

\* JavaScript null (an absent number, an animated value a screen lacks).
Null == [kind |-> "null"]

-----------------------------------------------------------------------------
(* Integer helpers *)

RECURSIVE Pow10(_)
Pow10(k) == IF k <= 0 THEN 1 ELSE 10 * Pow10(k - 1)

RECURSIVE NumDigits(_)
NumDigits(m) == IF m < 10 THEN 1 ELSE 1 + NumDigits(m \div 10)

RECURSIVE GCD(_, _)
GCD(a, b) == IF b = 0 THEN a ELSE GCD(b, a % b)

Abs(x) == IF x < 0 THEN -x ELSE x

-----------------------------------------------------------------------------
(* Rationals *)

Rat(n, d) ==
  LET g == GCD(Abs(n), Abs(d))
      s == IF d < 0 THEN -1 ELSE 1
  IN  [n |-> s * (n \div g), d |-> s * (d \div g)]

RatInt(k) == [n |-> k, d |-> 1]
RatMul(a, b) == Rat(Rat(a.n, b.d).n * Rat(b.n, a.d).n, Rat(a.n, b.d).d * Rat(b.n, a.d).d)
RatDiv(a, b) == RatMul(a, Rat(b.d, b.n))
RatSub(a, b) == Rat(a.n * b.d - b.n * a.d, a.d * b.d)
RatLess(a, b) == a.n * b.d < b.n * a.d
RatMin(a, b) == IF RatLess(b, a) THEN b ELSE a
RatMax(a, b) == IF RatLess(a, b) THEN b ELSE a

-----------------------------------------------------------------------------
(* Texts and String.prototype helpers *)

Digit == {"0", "1", "2", "3", "4", "5", "6", "7", "8", "9"}

DigitVal(c) ==
  CASE c = "0" -> 0 [] c = "1" -> 1 [] c = "2" -> 2 [] c = "3" -> 3
    [] c = "4" -> 4 [] c = "5" -> 5 [] c = "6" -> 6 [] c = "7" -> 7
    [] c = "8" -> 8 [] c = "9" -> 9

\* input.replace(',', '.'): a string pattern replaces the FIRST match only.
ReplaceFirstComma(s) ==
  IF \E i \in 1..Len(s) : s[i] = ","
    THEN LET k == CHOOSE i \in 1..Len(s) :
                    s[i] = "," /\ \A j \in 1..(i - 1) : s[j] # ","
         IN  [i \in 1..Len(s) |-> IF i = k THEN "." ELSE s[i]]
    ELSE s

WhiteSpace == {" ", "\t", "\n"}

\* String.prototype.trim
Trim(s) ==
  IF \A i \in 1..Len(s) : s[i] \in WhiteSpace
    THEN << >>
    ELSE LET a == CHOOSE i \in 1..Len(s) :
                    s[i] \notin WhiteSpace /\ \A j \in 1..(i - 1) : s[j] \in WhiteSpace
             b == CHOOSE i \in 1..Len(s) :
                    s[i] \notin WhiteSpace /\ \A j \in (i + 1)..Len(s) : s[j] \in WhiteSpace
         IN  SubSeq(s, a, b)

HexDigit == Digit \cup {"a", "b", "c", "d", "e", "f", "A", "B", "C", "D", "E", "F"}

HexVal(c) ==
  CASE c \in Digit -> DigitVal(c)
    [] c \in {"a", "A"} -> 10 [] c \in {"b", "B"} -> 11 [] c \in {"c", "C"} -> 12
    [] c \in {"d", "D"} -> 13 [] c \in {"e", "E"} -> 14 [] c \in {"f", "F"} -> 15

IsDigits(s) == \A i \in 1..Len(s) : s[i] \in Digit

\* Index of the first occurrence of c in s, or Len(s) + 1.
IndexOf(s, c) ==
  IF \E i \in 1..Len(s) : s[i] = c
    THEN CHOOSE i \in 1..Len(s) : s[i] = c /\ \A j \in 1..(i - 1) : s[j] # c
    ELSE Len(s) + 1

RECURSIVE DigitsToInt(_)
DigitsToInt(s) ==
  IF s = << >> THEN 0
  ELSE 10 * DigitsToInt(SubSeq(s, 1, Len(s) - 1)) + DigitVal(s[Len(s)])

RECURSIVE RadixToInt(_, _)
RadixToInt(s, base) ==
  IF s = << >> THEN 0
  ELSE base * RadixToInt(SubSeq(s, 1, Len(s) - 1), base) + HexVal(s[Len(s)])

-----------------------------------------------------------------------------
(* Number(text): the StringToNumber conversion of ECMAScript *)

NaN == [kind |-> "NaN", neg |-> FALSE, m |-> 0, e |-> 0]
Infinity(neg) == [kind |-> "Infinity", neg |-> neg, m |-> 0, e |-> 0]
Zero == [kind |-> "finite", neg |-> FALSE, m |-> 0, e |-> 0]

\* Canonical decimal: no trailing zero in the mantissa.
RECURSIVE Canon(_, _)
Canon(m, e) ==
  IF m = 0 THEN [m |-> 0, e |-> 0]
  ELSE IF m % 10 = 0 THEN Canon(m \div 10, e + 1)
  ELSE [m |-> m, e |-> e]

\* The mantissa's leading digits as a nine-digit integer.
Lead9(m) == m * Pow10(9 - NumDigits(m))

\* The double for (-1)^neg * m0 * 10^e0: overflow gives Infinity, underflow
\* gives zero (the sign of zero is not kept).
ToDouble(neg, m0, e0) ==
  LET c == Canon(m0, e0)
      top == NumDigits(c.m) + c.e - 1
  IN  IF c.m = 0 THEN Zero
      ELSE IF top > 308 \/ (top = 308 /\ Lead9(c.m) > 179769313)
        THEN Infinity(neg)
      ELSE IF top < -324 \/ (top = -324 /\ Lead9(c.m) <= 247032822)
        THEN Zero
      ELSE [kind |-> "finite", neg |-> neg, m |-> c.m, e |-> c.e]

InfinityLiteral == <<"I", "n", "f", "i", "n", "i", "t", "y">>

\* StrUnsignedDecimalLiteral: Infinity, or digits with an optional fraction
\* and an optional exponent part.
UnsignedDecimal(neg, body) ==
  LET ePos == IF IndexOf(body, "e") < IndexOf(body, "E")
                THEN IndexOf(body, "e") ELSE IndexOf(body, "E")
      hasExp == ePos <= Len(body)
      mant == SubSeq(body, 1, ePos - 1)
      expo == SubSeq(body, ePos + 1, Len(body))
      expSigned == expo # << >> /\ Head(expo) \in {"+", "-"}
      expDigits == IF expSigned THEN Tail(expo) ELSE expo
      expOk == ~hasExp \/ (expDigits # << >> /\ IsDigits(expDigits))
      expVal == IF ~hasExp THEN 0
                ELSE IF Head(expo) = "-" THEN -DigitsToInt(expDigits)
                ELSE DigitsToInt(expDigits)
      dot == IndexOf(mant, ".")
      intPart == SubSeq(mant, 1, dot - 1)
      fracPart == SubSeq(mant, dot + 1, Len(mant))
      mantOk == /\ IsDigits(intPart)
                /\ IsDigits(fracPart)
                /\ (intPart # << >> \/ fracPart # << >>)
  IN  IF body = InfinityLiteral THEN Infinity(neg)
      ELSE IF mantOk /\ expOk
        THEN ToDouble(neg, DigitsToInt(intPart \o fracPart), expVal - Len(fracPart))
      ELSE NaN

\* NonDecimalIntegerLiteral: 0x, 0o, 0b prefixes (no sign allowed).
NonDecimalBase(s) ==
  IF Len(s) < 3 \/ s[1] # "0" THEN 0
  ELSE IF s[2] \in {"x", "X"} THEN 16
  ELSE IF s[2] \in {"o", "O"} THEN 8
  ELSE IF s[2] \in {"b", "B"} THEN 2
  ELSE 0

IsNonDecimal(s) ==
  /\ NonDecimalBase(s) # 0
  /\ \A i \in 3..Len(s) : s[i] \in HexDigit /\ HexVal(s[i]) < NonDecimalBase(s)

\* Number(s) for a string s.  The empty string converts to 0.
ToNumber(str) ==
  LET s == Trim(str)
      signed == s # << >> /\ Head(s) \in {"+", "-"}
      neg == s # << >> /\ Head(s) = "-"
  IN  IF s = << >> THEN Zero
      ELSE IF IsNonDecimal(s)
        THEN ToDouble(FALSE, RadixToInt(SubSeq(s, 3, Len(s)), NonDecimalBase(s)), 0)
      ELSE UnsignedDecimal(neg, IF signed THEN Tail(s) ELSE s)

\* Number.isFinite
IsFinite(v) == v.kind = "finite"

\* Mutation of parseNumber: the Number.isFinite test is missing.
parseNumber_noFiniteCheck(text) ==
  LET normalized == Trim(ReplaceFirstComma(text))
  IN  IF normalized = << >> THEN Null ELSE ToNumber(normalized)

parseNumber(text) ==
  LET normalized == Trim(ReplaceFirstComma(text))
      value == ToNumber(normalized)
  IN  IF normalized = << >> THEN Null
      ELSE IF ~IsFinite(value) THEN Null
      ELSE value

-----------------------------------------------------------------------------
(* Comparisons and arithmetic on parsed numbers *)

\* x > k and x < k for a finite number x and a natural k, as the JavaScript
\* relational operators give them.  A canonical mantissa with e < 0 has a
\* non-zero fraction, so only its integer part is compared.
NumGt(x, k) ==
  /\ ~x.neg
  /\ x.m # 0
  /\ LET intDigits == NumDigits(x.m) + x.e
     IN  \/ intDigits > 9
         \/ /\ intDigits >= 1
            /\ IF x.e >= 0 THEN x.m * Pow10(x.e) > k
                           ELSE x.m \div Pow10(-x.e) >= k

NumLt(x, k) ==
  \/ x.neg
  \/ x.m = 0
  \/ LET intDigits == NumDigits(x.m) + x.e
     IN  \/ intDigits <= 0
         \/ /\ intDigits <= 9
            /\ IF x.e >= 0 THEN x.m * Pow10(x.e) < k
                           ELSE x.m \div Pow10(-x.e) < k

\* The exact value of a finite number as a rational.
ToRat(x) ==
  LET a == IF x.e >= 0 THEN Rat(x.m * Pow10(x.e), 1) ELSE Rat(x.m, Pow10(-x.e))
  IN  IF x.neg THEN [n |-> -a.n, d |-> a.d] ELSE a

-----------------------------------------------------------------------------
(* The two Page components *)

Variants == {"reanimated", "animated"}

\* The en dash and the greater-or-equal sign of the range labels are written
\* in ASCII.

\* Mutation of getBmiCategory: the thresholds are compared with <=.
getBmiCategory_inclusiveUpper(v, bmi) ==
  LET label == IF ~RatLess(Rat(185, 10), bmi) THEN "Underweight"
               ELSE IF ~RatLess(RatInt(25), bmi) THEN "Normal"
               ELSE IF ~RatLess(RatInt(30), bmi) THEN "Overweight"
               ELSE "Obese"
      rangeLabel == CASE label = "Underweight" -> "< 18.5"
                      [] label = "Normal" -> "18.5 - 24.9"
                      [] label = "Overweight" -> "25.0 - 29.9"
                      [] label = "Obese" -> ">= 30.0"
      hint == CASE label = "Underweight" ->
                     "Try a nutrient-dense diet and strength training. If unsure, check with a clinician."
                [] label = "Normal" ->
                     "Nice! Keep a balanced diet and regular activity to maintain."
                [] label = "Overweight" ->
                     "Consider small, sustainable changes: daily steps, protein-forward meals, and sleep."
                [] label = "Obese" ->
                     "A structured plan helps: nutrition, movement, and medical guidance if needed."
  IN  [label |-> label, rangeLabel |-> rangeLabel, hint |-> hint,
       colorClass |-> "text-slate-200", accentHex |-> Null]

getBmiCategory(v, bmi) ==
  IF RatLess(bmi, Rat(185, 10)) THEN
    [label |-> "Underweight", rangeLabel |-> "< 18.5",
     hint |-> "Try a nutrient-dense diet and strength training. If unsure, check with a clinician.",
     colorClass |-> IF v = "reanimated" THEN "text-sky-300" ELSE "text-orange-700",
     accentHex |-> IF v = "reanimated" THEN Null ELSE "#c2410c"]
  ELSE IF RatLess(bmi, RatInt(25)) THEN
    [label |-> "Normal", rangeLabel |-> "18.5 - 24.9",
     hint |-> "Nice! Keep a balanced diet and regular activity to maintain.",
     colorClass |-> IF v = "reanimated" THEN "text-emerald-300" ELSE "text-emerald-700",
     accentHex |-> IF v = "reanimated" THEN Null ELSE "#047857"]
  ELSE IF RatLess(bmi, RatInt(30)) THEN
    [label |-> "Overweight", rangeLabel |-> "25.0 - 29.9",
     hint |-> "Consider small, sustainable changes: daily steps, protein-forward meals, and sleep.",
     colorClass |-> IF v = "reanimated" THEN "text-amber-300" ELSE "text-amber-700",
     accentHex |-> IF v = "reanimated" THEN Null ELSE "#b45309"]
  ELSE
    [label |-> "Obese", rangeLabel |-> ">= 30.0",
     hint |-> "A structured plan helps: nutrition, movement, and medical guidance if needed.",
     colorClass |-> IF v = "reanimated" THEN "text-rose-300" ELSE "text-rose-700",
     accentHex |-> IF v = "reanimated" THEN Null ELSE "#be123c"]

\* const category = useMemo(() => (bmi == null ? null : getBmiCategory(bmi)), [bmi])
category(v, p) == IF p.bmi = Null THEN Null ELSE getBmiCategory(v, p.bmi)

\* reanimated screen: the derived value bmiColor, an index into the palette.
bmiColor(p) ==
  IF p.bmi = Null THEN 0
  ELSE IF p.bmi.n = 0 THEN 0
  ELSE IF RatLess(p.bmi, Rat(185, 10)) THEN 0
  ELSE IF RatLess(p.bmi, RatInt(25)) THEN 1
  ELSE IF RatLess(p.bmi, RatInt(30)) THEN 2
  ELSE 3

Palette == <<"#38bdf8", "#34d399", "#fbbf24", "#fb7185">>

\* The colour of the scale fill and of the indicator (barFillStyle,
\* indicatorStyle).
fillColor(v, p) ==
  IF v = "reanimated" THEN Palette[bmiColor(p) + 1]
  ELSE IF p.bmi = Null THEN "#0f172a"
  ELSE getBmiCategory(v, p.bmi).accentHex

DigitChar(k) ==
  CASE k = 0 -> "0" [] k = 1 -> "1" [] k = 2 -> "2" [] k = 3 -> "3"
    [] k = 4 -> "4" [] k = 5 -> "5" [] k = 6 -> "6" [] k = 7 -> "7"
    [] k = 8 -> "8" [] k = 9 -> "9"

\* The decimal digits of a natural number.
RECURSIVE IntToDigits(_)
IntToDigits(k) ==
  IF k < 10 THEN <<DigitChar(k)>>
  ELSE IntToDigits(k \div 10) \o <<DigitChar(k % 10)>>

\* (t / 10).toFixed(1) for an integer number of tenths t.
ToFixed1(t) ==
  (IF t < 0 THEN <<"-">> ELSE << >>)
    \o IntToDigits(Abs(t) \div 10) \o <<".", DigitChar(Abs(t) % 10)>>

\* Mutation of round1: the value is truncated (Math.floor) instead of rounded.
round1_truncated(n) == ToFixed1((10 * n.n) \div n.d)

\* (Math.round(n * 10) / 10).toFixed(1): Math.round rounds to the nearest
\* integer, a tie towards +Infinity.
round1(n) == ToFixed1((20 * n.n + n.d) \div (2 * n.d))

\* The text of the "Your BMI" field: bmi == null ? '-' : round1(bmi) (the
\* em dash is written in ASCII).
bmiText(p) == IF p.bmi = Null THEN <<"-">> ELSE round1(p.bmi)

(* bmiSetBy is a history field: the place that last wrote the bmi state,   *)
(* useState(null) at mount or the setBmi call of a handler.                *)
(*                                                                         *)
(* Animations.  An animated value holds the animation last started on it.  *)
(* from = "current" means the animation starts at the value's position at  *)
(* the time it is started.                                                 *)
(*                                                                         *)
(* shake is the animation driver's side of shakeX: pos is the form's       *)
(* horizontal offset and running lists the sequences in flight on the      *)
(* value, each with the offset it started from and the leg it is in.       *)
Anim(type, toValue, duration, legs) ==
  [type |-> type, toValue |-> toValue, duration |-> duration, legs |-> legs]

Still(k) == Anim("value", RatInt(k), 0, << >>)
Timing(to, duration) == Anim("timing", to, duration, << >>)
Spring(to) == Anim("spring", to, 0, << >>)
Sequence(legs) == Anim("sequence", legs[Len(legs)].toValue, 0, legs)
Repeat(a) == Anim("repeat", a.toValue, 0, <<a>>)

\* One started animation (or immediate setValue) on one animated value.
Intent(target, anim) == [target |-> target, anim |-> anim]

\* The state of a mounted Page after its first render and mount effect.
InitialPage(v) ==
  [heightCm |-> << >>, weightKg |-> << >>,
   heightValue |-> parseNumber(<< >>), weightValue |-> parseNumber(<< >>),
   bmi |-> Null, bmiSetBy |-> "useState", barWidth |-> 0,
   reveal |-> Still(0), shakeX |-> Still(0), progress |-> Still(0),
   shake |-> [pos |-> RatInt(0), running |-> << >>],
   pulse |-> IF v = "reanimated" THEN Repeat(Timing(RatInt(1), 2400)) ELSE Null,
   indicatorPop |-> IF v = "animated" THEN Still(0) ELSE Null,
   emitted |-> << >>]

\* Mutation of setHeightCm: editing the height also clears the result.
setHeightCm_clearsBmi(p, text) ==
  [p EXCEPT !.heightCm = text, !.heightValue = parseNumber(text),
            !.bmi = Null, !.emitted = << >>]

\* setHeightCm, followed by the render that recomputes the heightValue memo.
setHeightCm(p, text) ==
  [p EXCEPT !.heightCm = text, !.heightValue = parseNumber(text), !.emitted = << >>]

\* setWeightKg, followed by the render that recomputes the weightValue memo.
setWeightKg(p, text) ==
  [p EXCEPT !.weightKg = text, !.weightValue = parseNumber(text), !.emitted = << >>]

\* onLayout={(e) => setBarWidth(e.nativeEvent.layout.width)}
setBarWidth(p, width) == [p EXCEPT !.barWidth = width, !.emitted = << >>]

\* Mutation of shakeLegs: the oscillation is not damped.
shakeLegs_undamped ==
  <<Timing(RatInt(-10), 60), Timing(RatInt(10), 60), Timing(RatInt(-10), 60),
    Timing(RatInt(10), 60), Timing(RatInt(0), 60)>>

shakeLegs ==
  <<Timing(RatInt(-10), 60), Timing(RatInt(10), 60), Timing(RatInt(-8), 60),
    Timing(RatInt(8), 60), Timing(RatInt(0), 60)>>

\* The animations triggerInvalidShake starts, in order.
triggerInvalidShake(v) ==
  IF v = "reanimated"
    THEN <<Intent("shakeX", Sequence(shakeLegs))>>
    ELSE <<Intent("shakeX", Still(0)), Intent("shakeX", Sequence(shakeLegs))>>

\* The animations triggerIndicatorPop starts, in order (Animated screen).
triggerIndicatorPop ==
  <<Intent("indicatorPop", Still(0)),
    Intent("indicatorPop", Sequence(<<Spring(RatInt(1)), Timing(RatInt(0), 220)>>))>>

\* Mutation of valid: the bounds are inclusive.
valid_inclusive(h, w) ==
  /\ h # Null
  /\ w # Null
  /\ ~NumLt(h, 40)
  /\ ~NumGt(h, 260)
  /\ ~NumLt(w, 10)
  /\ ~NumGt(w, 400)

valid(h, w) ==
  /\ h # Null
  /\ w # Null
  /\ NumGt(h, 40)
  /\ NumLt(h, 260)
  /\ NumGt(w, 10)
  /\ NumLt(w, 400)

\* Mutation of nextBmi: the value is rounded to one decimal before it is
\* stored.
nextBmi_rounded(h, w) ==
  LET heightM == RatDiv(ToRat(h), RatInt(100))
      b == RatDiv(ToRat(w), RatMul(heightM, heightM))
  IN  Rat((20 * b.n + b.d) \div (2 * b.d), 10)

nextBmi(h, w) ==
  LET heightM == RatDiv(ToRat(h), RatInt(100))
  IN  RatDiv(ToRat(w), RatMul(heightM, heightM))

\* Mutation of normalized: the clamp is missing.
normalized_unclamped(bmi) == RatDiv(RatSub(bmi, RatInt(10)), RatInt(30))

normalized(bmi) ==
  RatMax(RatInt(0), RatMin(RatInt(1), RatDiv(RatSub(bmi, RatInt(10)), RatInt(30))))

\* Mutation of startOn: a new sequence is queued behind the one in flight.
startOn_stacking(shake, anim) ==
  IF anim.type = "sequence"
    THEN [shake EXCEPT !.running = @ \o <<[anim |-> anim, from |-> shake.pos, leg |-> 1]>>]
    ELSE [pos |-> anim.toValue, running |-> << >>]

\* An animation is started on shakeX.  Assigning withSequence(...) to the
\* shared value cancels the sequence in flight and starts the new one at the
\* value's current position; setValue stops the sequence in flight and
\* moves the value; a sequence started on an Animated.Value replaces the
\* one in flight.
startOn(shake, anim) ==
  IF anim.type = "sequence"
    THEN [shake EXCEPT !.running = <<[anim |-> anim, from |-> shake.pos, leg |-> 1]>>]
    ELSE [pos |-> anim.toValue, running |-> << >>]

\* The animated values after the intents of a handler have been started: each
\* value holds the last animation started on it.
RECURSIVE Drive(_, _)
Drive(p, intents) ==
  IF intents = << >> THEN p
  ELSE LET i == Head(intents)
           q == CASE i.target = "shakeX" ->
                         [p EXCEPT !.shakeX = i.anim, !.shake = startOn(@, i.anim)]
                  [] i.target = "reveal" -> [p EXCEPT !.reveal = i.anim]
                  [] i.target = "progress" -> [p EXCEPT !.progress = i.anim]
                  [] i.target = "indicatorPop" -> [p EXCEPT !.indicatorPop = i.anim]
       IN  Drive(q, Tail(intents))

Emit(p, intents) == [Drive(p, intents) EXCEPT !.emitted = intents]

onCalculate(v, p) ==
  LET h == p.heightValue
      w == p.weightValue
  IN  IF ~valid(h, w) THEN
        IF v = "reanimated" THEN
          Emit([p EXCEPT !.bmi = Null, !.bmiSetBy = "onCalculate"],
               triggerInvalidShake(v)
                 \o <<Intent("reveal", Timing(RatInt(0), 180)),
                      Intent("progress", Timing(RatInt(0), 180))>>)
        ELSE
          Emit([p EXCEPT !.bmi = Null, !.bmiSetBy = "onCalculate"],
               triggerInvalidShake(v)
                 \o <<Intent("indicatorPop", Still(0)),
                      Intent("reveal", Timing(RatInt(0), 160)),
                      Intent("progress", Timing(RatInt(0), 180))>>)
      ELSE
        IF v = "reanimated" THEN
          Emit([p EXCEPT !.bmi = nextBmi(h, w), !.bmiSetBy = "onCalculate"],
               <<Intent("reveal", Spring(RatInt(1))),
                 Intent("progress", Timing(normalized(nextBmi(h, w)), 500))>>)
        ELSE
          Emit([p EXCEPT !.bmi = nextBmi(h, w), !.bmiSetBy = "onCalculate"],
               <<Intent("reveal", Timing(RatInt(1), 220)),
                 Intent("progress", Timing(normalized(nextBmi(h, w)), 480))>>
                 \o triggerIndicatorPop)

\* Mutation of onReset: setBmi(null) is missing.
onReset_keepsBmi(v, p) ==
  LET q == [p EXCEPT !.heightCm = << >>, !.heightValue = parseNumber(<< >>),
                     !.weightKg = << >>, !.weightValue = parseNumber(<< >>)]
  IN  IF v = "reanimated" THEN
        Emit(q, <<Intent("reveal", Timing(RatInt(0), 200)),
                  Intent("progress", Timing(RatInt(0), 200))>>)
      ELSE
        Emit(q, <<Intent("indicatorPop", Still(0)),
                  Intent("reveal", Timing(RatInt(0), 160)),
                  Intent("progress", Timing(RatInt(0), 180))>>)

\* Mutation of onReset: the parsed values are not recomputed from the
\* cleared texts.
onReset_staleValues(v, p) ==
  LET q == [p EXCEPT !.heightCm = << >>, !.weightKg = << >>,
                     !.bmi = Null, !.bmiSetBy = "onReset"]
  IN  IF v = "reanimated" THEN
        Emit(q, <<Intent("reveal", Timing(RatInt(0), 200)),
                  Intent("progress", Timing(RatInt(0), 200))>>)
      ELSE
        Emit(q, <<Intent("indicatorPop", Still(0)),
                  Intent("reveal", Timing(RatInt(0), 160)),
                  Intent("progress", Timing(RatInt(0), 180))>>)

\* Mutation of onReset: the scale fill is not retracted.
onReset_keepsFill(v, p) ==
  LET q == [p EXCEPT !.heightCm = << >>, !.heightValue = parseNumber(<< >>),
                     !.weightKg = << >>, !.weightValue = parseNumber(<< >>),
                     !.bmi = Null, !.bmiSetBy = "onReset"]
  IN  IF v = "reanimated" THEN
        Emit(q, <<Intent("reveal", Timing(RatInt(0), 200))>>)
      ELSE
        Emit(q, <<Intent("indicatorPop", Still(0)),
                  Intent("reveal", Timing(RatInt(0), 160))>>)

onReset(v, p) ==
  LET q == [p EXCEPT !.heightCm = << >>, !.heightValue = parseNumber(<< >>),
                     !.weightKg = << >>, !.weightValue = parseNumber(<< >>),
                     !.bmi = Null, !.bmiSetBy = "onReset"]
  IN  IF v = "reanimated" THEN
        Emit(q, <<Intent("reveal", Timing(RatInt(0), 200)),
                  Intent("progress", Timing(RatInt(0), 200))>>)
      ELSE
        Emit(q, <<Intent("indicatorPop", Still(0)),
                  Intent("reveal", Timing(RatInt(0), 160)),
                  Intent("progress", Timing(RatInt(0), 180))>>)

-----------------------------------------------------------------------------
(* Spec: one mounted screen driven by user and layout events *)

\* Texts typed into the height field.
HeightTexts ==
  { << >>, <<"a", "b", "c">>, <<"4", "0">>, <<"1", "0", "0">>,
    <<"2", "0", "0">>, <<"2", "5", "9">>, <<"2", "6", "0">>,
    <<"1", "e", "4", "0", "0">> }

\* Texts typed into the weight field.
WeightTexts ==
  { << >>, <<"1", "0">>, <<"4", "0">>, <<"6", "8">>, <<"7", "4">>,
    <<"9", "9", ",", "9">>, <<"1", "0", "0">>, <<"1", "2", "0">>,
    <<"4", "0", "0">> }

\* Scale widths the host layout reports.
LayoutWidths == {0, 320}

Init ==
  /\ \E v \in Variants : pages = [x \in {v} |-> InitialPage(x)]
  /\ event = "mount"
  /\ input = << >>
  /\ parsed = Null
  /\ pc = "idle"

\* An event reaches every mounted page; `after` gives each page's state when
\* its handler has run and the page has rendered again.
Dispatch(name, after) ==
  /\ pages' = after
  /\ event' = name
  /\ UNCHANGED <<input, parsed, pc>>

ChangeHeight ==
  /\ pc = "idle"
  /\ \E text \in HeightTexts :
       Dispatch("setHeightCm", [v \in DOMAIN pages |-> setHeightCm(pages[v], text)])

ChangeWeight ==
  /\ pc = "idle"
  /\ \E text \in WeightTexts :
       Dispatch("setWeightKg", [v \in DOMAIN pages |-> setWeightKg(pages[v], text)])

Layout ==
  /\ pc = "idle"
  /\ \E width \in LayoutWidths :
       Dispatch("setBarWidth", [v \in DOMAIN pages |-> setBarWidth(pages[v], width)])

Calculate ==
  /\ pc = "idle"
  /\ Dispatch("onCalculate", [v \in DOMAIN pages |-> onCalculate(v, pages[v])])

Reset ==
  /\ pc = "idle"
  /\ Dispatch("onReset", [v \in DOMAIN pages |-> onReset(v, pages[v])])

\* The time of one leg passes: every sequence in flight on shakeX brings the
\* offset to the target of its leg and goes on to its next leg, or finishes.
frame(p) ==
  LET run == p.shake.running
      last == run[Len(run)]
      left == SelectSeq(run, LAMBDA r : r.leg < Len(r.anim.legs))
  IN  IF run = << >> THEN p
      ELSE [p EXCEPT !.shake =
              [pos |-> last.anim.legs[last.leg].toValue,
               running |-> [k \in 1..Len(left) |-> [left[k] EXCEPT !.leg = @ + 1]]]]

Frame ==
  /\ pc = "idle"
  /\ \E v \in DOMAIN pages : pages[v].shake.running # << >>
  /\ Dispatch("frame", [v \in DOMAIN pages |-> frame(pages[v])])

Next == ChangeHeight \/ ChangeWeight \/ Layout \/ Calculate \/ Reset

Spec == Init /\ [][Next]_vars

\* SpecBoth: both screens mounted and fed the same events.
InitBoth ==
  /\ pages = [v \in Variants |-> InitialPage(v)]
  /\ event = "mount"
  /\ input = << >>
  /\ parsed = Null
  /\ pc = "idle"

SpecBoth == InitBoth /\ [][Next]_vars

\* SpecShake: the same screen with the animation driver's frames.  The scale
\* width is independent of every animated value and keeps its initial value.
NextShake == ChangeHeight \/ ChangeWeight \/ Calculate \/ Reset \/ Frame

SpecShake == Init /\ [][NextShake]_vars

TypeOK ==
  /\ DOMAIN pages \subseteq Variants
  /\ \A v \in DOMAIN pages : pages[v].barWidth \in LayoutWidths

-----------------------------------------------------------------------------
(* SpecParse: parseNumber applied to every text up to MaxLen characters *)

ParseAlphabet == {"0", "1", "4", ",", ".", "e", " ", "a", "-"}

ExampleTexts ==
  { <<"6", "8">>, <<"6", "8", ",", "5">>, <<"a", "b", "c">>,
    <<"1", "e", "4", "0", "0">>, <<" ", " ">>, InfinityLiteral,
    <<"0", "x", "1", "0">>, <<"1", ",", "2", ",", "3">>,
    <<" ", "6", "8", ".", "5", "\t">> }

ParseTexts == UNION {[1..k -> ParseAlphabet] : k \in 0..MaxLen} \cup ExampleTexts

InitParse ==
  /\ pages = << >>
  /\ event = "none"
  /\ input \in ParseTexts
  /\ parsed = Null
  /\ pc = "start"

ParseStep ==
  /\ pc = "start"
  /\ parsed' = parseNumber(input)
  /\ pc' = "done"
  /\ UNCHANGED <<pages, event, input>>

SpecParse == InitParse /\ [][ParseStep]_vars

-----------------------------------------------------------------------------
(* Properties *)

\* The number x lies strictly between lo and hi.
Between(x, lo, hi) ==
  /\ RatLess(RatInt(lo), ToRat(x))
  /\ RatLess(ToRat(x), RatInt(hi))

\* Both values are present and inside the validation bounds.
InRange(h, w) ==
  /\ h # Null
  /\ w # Null
  /\ Between(h, 40, 260)
  /\ Between(w, 10, 400)

\* Some started animation is the shake: five 60 ms timing legs on shakeX to
\* -10, 10, -8, 8, 0.
HasShake(intents) ==
  \E i \in DOMAIN intents :
    /\ intents[i].target = "shakeX"
    /\ intents[i].anim.type = "sequence"
    /\ Len(intents[i].anim.legs) = 5
    /\ [k \in 1..5 |-> intents[i].anim.legs[k].toValue.n] = <<-10, 10, -8, 8, 0>>
    /\ \A k \in 1..5 :
         /\ intents[i].anim.legs[k].type = "timing"
         /\ intents[i].anim.legs[k].duration = 60
         /\ intents[i].anim.legs[k].toValue.d = 1

\* Some started animation drives the target to the value `to`.
HasAnimTo(intents, target, to) ==
  \E i \in DOMAIN intents :
    /\ intents[i].target = target
    /\ intents[i].anim.type \in {"timing", "spring"}
    /\ intents[i].anim.toValue = to

\* The page shows the outcome of a rejected Calculate.
Rejected(p) ==
  /\ p.bmi = Null
  /\ p.bmiSetBy = "onCalculate"
  /\ HasShake(p.emitted)

\* C1: onCalculate is Rejected (bmi absent, shake) unless both texts parse
\* to a present number with 40 < height < 260 and 10 < weight < 400; the
\* boundary values 40, 260, 10, 400 are rejected, and a text that parses to
\* absent in either field yields Rejected.
C1_RejectedUnlessInRange ==
  \A v \in DOMAIN pages :
    LET p == pages[v]
        h == parseNumber(p.heightCm)
        w == parseNumber(p.weightKg)
    IN  event = "onCalculate" =>
          /\ ~InRange(h, w) => Rejected(p)
          /\ (h = Null \/ w = Null) => Rejected(p)
          /\ p.heightCm \in {<<"4", "0">>, <<"2", "6", "0">>} => Rejected(p)
          /\ p.weightKg \in {<<"1", "0">>, <<"4", "0", "0">>} => Rejected(p)

\* C1 witness: Calculate on height "40" with a valid weight "68" was rejected.
C1_Witness ==
  \E v \in DOMAIN pages :
    /\ event = "onCalculate"
    /\ pages[v].heightCm = <<"4", "0">>
    /\ pages[v].weightKg = <<"6", "8">>
    /\ Rejected(pages[v])

\* C2: for height in (40,260) and weight in (10,400) onCalculate is Accepted
\* and the stored bmi equals weight / (height/100)^2 exactly, unrounded.
C2_StoredBmiExact ==
  \A v \in DOMAIN pages :
    LET p == pages[v]
        h == parseNumber(p.heightCm)
        w == parseNumber(p.weightKg)
    IN  (event = "onCalculate" /\ InRange(h, w)) =>
          /\ p.bmi # Null
          /\ p.bmi = Rat(10000 * ToRat(w).n * ToRat(h).d * ToRat(h).d,
                         ToRat(w).d * ToRat(h).n * ToRat(h).n)
          /\ (p.heightCm = <<"2", "0", "0">> /\ p.weightKg = <<"9", "9", ",", "9">>)
               => p.bmi = [n |-> 999, d |-> 40]
          /\ (p.heightCm = <<"2", "5", "9">> /\ p.weightKg = <<"4", "0">>)
               => p.bmi = [n |-> 400000, d |-> 67081]

\* C2 witness: 99,9 kg at 200 cm was accepted and stored as 24.975.
C2_Witness ==
  \E v \in DOMAIN pages :
    /\ event = "onCalculate"
    /\ pages[v].heightCm = <<"2", "0", "0">>
    /\ pages[v].weightKg = <<"9", "9", ",", "9">>
    /\ pages[v].bmi = [n |-> 999, d |-> 40]

CategoryData ==
  [Underweight |->
     [rangeLabel |-> "< 18.5",
      hint |-> "Try a nutrient-dense diet and strength training. If unsure, check with a clinician."],
   Normal |->
     [rangeLabel |-> "18.5 - 24.9",
      hint |-> "Nice! Keep a balanced diet and regular activity to maintain."],
   Overweight |->
     [rangeLabel |-> "25.0 - 29.9",
      hint |-> "Consider small, sustainable changes: daily steps, protein-forward meals, and sleep."],
   Obese |->
     [rangeLabel |-> ">= 30.0",
      hint |-> "A structured plan helps: nutrition, movement, and medical guidance if needed."]]

\* C3: every stored bmi is classified into exactly one category by half-open
\* intervals with inclusive lower bounds (< 18.5 Underweight, [18.5, 25)
\* Normal, [25, 30) Overweight, >= 30 Obese; 18.5 is Normal, 25 Overweight,
\* 30 Obese) and the category carries its fixed label, range and hint.
C3_Classification ==
  \A v \in DOMAIN pages :
    LET p == pages[v]
        b == p.bmi
        c == category(v, p)
    IN  b # Null =>
          /\ c.label \in {"Underweight", "Normal", "Overweight", "Obese"}
          /\ (c.label = "Underweight") <=> (2 * b.n < 37 * b.d)
          /\ (c.label = "Normal") <=> (37 * b.d <= 2 * b.n /\ b.n < 25 * b.d)
          /\ (c.label = "Overweight") <=> (25 * b.d <= b.n /\ b.n < 30 * b.d)
          /\ (c.label = "Obese") <=> (30 * b.d <= b.n)
          /\ (b = [n |-> 37, d |-> 2]) => c.label = "Normal"
          /\ (b = [n |-> 25, d |-> 1]) => c.label = "Overweight"
          /\ (b = [n |-> 30, d |-> 1]) => c.label = "Obese"
          /\ c.rangeLabel = CategoryData[c.label].rangeLabel
          /\ c.hint = CategoryData[c.label].hint

\* C3 witness: a stored bmi of exactly 18.5 is shown as Normal.
C3_Witness ==
  \E v \in DOMAIN pages :
    /\ pages[v].bmi = [n |-> 37, d |-> 2]
    /\ category(v, pages[v]).label = "Normal"
    /\ category(v, pages[v]).rangeLabel = "18.5 - 24.9"

\* clamp((bmi - 10) / 30, 0, 1) for a rational bmi.
ScalePosition(b) ==
  IF b.n <= 10 * b.d THEN [n |-> 0, d |-> 1]
  ELSE IF b.n >= 40 * b.d THEN [n |-> 1, d |-> 1]
  ELSE Rat(b.n - 10 * b.d, 30 * b.d)

\* C4: after every Accepted calculation the progress target equals
\* clamp((bmi - 10) / 30, 0, 1) (10 -> 0, 25 -> 1/2, 40 -> 1, saturating
\* outside), and in every reachable state the progress target is in [0, 1].
C4_ProgressTarget ==
  \A v \in DOMAIN pages :
    LET p == pages[v]
        t == p.progress.toValue
    IN  /\ 0 <= t.n /\ t.n <= t.d
        /\ (event = "onCalculate" /\ p.bmi # Null) =>
             /\ t = ScalePosition(p.bmi)
             /\ HasAnimTo(p.emitted, "progress", ScalePosition(p.bmi))
             /\ (p.bmi = [n |-> 10, d |-> 1]) => t = [n |-> 0, d |-> 1]
             /\ (p.bmi = [n |-> 25, d |-> 1]) => t = [n |-> 1, d |-> 2]
             /\ (p.bmi = [n |-> 40, d |-> 1]) => t = [n |-> 1, d |-> 1]
             /\ (p.bmi.n < 10 * p.bmi.d) => t = [n |-> 0, d |-> 1]
             /\ (p.bmi.n > 40 * p.bmi.d) => t = [n |-> 1, d |-> 1]

\* C4 witness: a bmi above 40 was accepted and the target saturated at 1.
C4_Witness ==
  \E v \in DOMAIN pages :
    /\ event = "onCalculate"
    /\ pages[v].bmi = [n |-> 68, d |-> 1]
    /\ pages[v].progress.toValue = [n |-> 1, d |-> 1]

\* The display state a page is in: Result while a bmi is stored; otherwise
\* Invalid when the bmi was last cleared by a rejected onCalculate and Idle
\* when it was never set or was cleared by onReset.
DisplayState(p) ==
  IF p.bmi # Null THEN "Result"
  ELSE IF p.bmiSetBy = "onCalculate" THEN "Invalid"
  ELSE "Idle"

\* The outcome onCalculate has on the texts of page p.
Outcome(p) ==
  IF InRange(parseNumber(p.heightCm), parseNumber(p.weightKg))
    THEN "Accepted" ELSE "Rejected"

\* C5: the display state is one of Idle, Invalid, Result, Idle initially;
\* after onCalculate it is Invalid on a Rejected and Result on an Accepted
\* outcome whatever the prior state, after onReset it is Idle, and from
\* every reachable state each of the three states can be reached again
\* (Reset; Reset then Calculate; two text changes then Calculate).
C5_DisplayStateMachine ==
  /\ [](\A v \in DOMAIN pages :
          LET p == pages[v]
              typed == setWeightKg(setHeightCm(p, <<"2", "0", "0">>), <<"1", "0", "0">>)
          IN  /\ DisplayState(p) \in {"Idle", "Invalid", "Result"}
              /\ event = "mount" => DisplayState(p) = "Idle"
              /\ DisplayState(onReset(v, p)) = "Idle"
              /\ DisplayState(onCalculate(v, onReset(v, p))) = "Invalid"
              /\ DisplayState(onCalculate(v, typed)) = "Result")
  /\ [][\A v \in DOMAIN pages :
          /\ event' = "onCalculate" =>
               DisplayState(pages'[v]) =
                 IF Outcome(pages[v]) = "Accepted" THEN "Result" ELSE "Invalid"
          /\ event' = "onReset" => DisplayState(pages'[v]) = "Idle"]_vars

\* C5 witness: a Result reached by Calculate on a page that was shaken by an
\* earlier rejection.
C5_Witness ==
  \E v \in DOMAIN pages :
    /\ event = "onCalculate"
    /\ DisplayState(pages[v]) = "Result"
    /\ pages[v].shakeX.type = "sequence"

\* C6: every Rejected onCalculate, from any prior state, emits the shake
\* (five 60 ms legs to -10, 10, -8, 8, 0) and the intents that retract the
\* result card and the scale fill to 0, and clears the stored result;
\* repeating it emits the same intents and leaves the same state.
C6_RejectedShakesAndRetracts ==
  \A v \in DOMAIN pages :
    LET p == pages[v]
    IN  (event = "onCalculate" /\ Outcome(p) = "Rejected") =>
          /\ HasShake(p.emitted)
          /\ p.shakeX.type = "sequence"
          /\ HasAnimTo(p.emitted, "reveal", RatInt(0))
          /\ HasAnimTo(p.emitted, "progress", RatInt(0))
          /\ p.reveal.toValue = RatInt(0)
          /\ p.progress.toValue = RatInt(0)
          /\ p.bmi = Null
          /\ onCalculate(v, p).emitted = p.emitted
          /\ onCalculate(v, p) = p

\* C6 witness: a rejected Calculate on a non-numeric height.
C6_Witness ==
  \E v \in DOMAIN pages :
    /\ event = "onCalculate"
    /\ pages[v].heightCm = <<"a", "b", "c">>
    /\ pages[v].bmi = Null
    /\ HasShake(pages[v].emitted)
    /\ onCalculate(v, pages[v]) = pages[v]

\* Some started animation is the indicator pop.
HasPop(intents) ==
  \E i \in DOMAIN intents :
    /\ intents[i].target = "indicatorPop"
    /\ intents[i].anim.type = "sequence"

\* The accent colour of each category on each screen.
Accent ==
  [reanimated |-> [Underweight |-> "#38bdf8", Normal |-> "#34d399",
                   Overweight |-> "#fbbf24", Obese |-> "#fb7185"],
   animated |-> [Underweight |-> "#c2410c", Normal |-> "#047857",
                 Overweight |-> "#b45309", Obese |-> "#be123c"]]

\* Reveal and fill: the result card is driven to 1 and the scale fill to the
\* scale position, in the accent colour of the category.
RevealAndFill(v, p) ==
  /\ HasAnimTo(p.emitted, "reveal", RatInt(1))
  /\ HasAnimTo(p.emitted, "progress", ScalePosition(p.bmi))
  /\ fillColor(v, p) = Accent[v][category(v, p).label]

\* C7: every Accepted onCalculate stores the result and starts, in the same
\* handler, a reveal intent, a fill intent and a pop intent on the indicator.
C7_AcceptedRevealFillPop ==
  \A v \in DOMAIN pages :
    LET p == pages[v]
    IN  (event = "onCalculate" /\ Outcome(p) = "Accepted") =>
          /\ DisplayState(p) = "Result"
          /\ RevealAndFill(v, p)
          /\ HasPop(p.emitted)

\* C8: onReset, from any state and with any texts, leaves the display Idle
\* (no stored bmi), both texts empty, started intents that retract the
\* result card and the scale fill to 0, and no shake intent.
C8_ResetClears ==
  \A v \in DOMAIN pages :
    LET p == pages[v]
    IN  event = "onReset" =>
          /\ p.bmi = Null
          /\ DisplayState(p) = "Idle"
          /\ p.heightCm = << >>
          /\ p.weightKg = << >>
          /\ p.heightValue = Null
          /\ p.weightValue = Null
          /\ HasAnimTo(p.emitted, "reveal", RatInt(0))
          /\ HasAnimTo(p.emitted, "progress", RatInt(0))
          /\ p.reveal.toValue = RatInt(0)
          /\ p.progress.toValue = RatInt(0)
          /\ \A i \in DOMAIN p.emitted : p.emitted[i].target # "shakeX"

\* C8 witness: a Reset of a page that an earlier rejection had shaken.
C8_Witness ==
  \E v \in DOMAIN pages :
    /\ event = "onReset"
    /\ pages[v].shakeX.type = "sequence"
    /\ pages[v].bmi = Null
    /\ pages[v].heightCm = << >>
    /\ pages[v].progress.type = "timing"

\* C9: parseNumber is total; empty or whitespace-only text yields absent;
\* text whose conversion is NaN or infinite yields absent; otherwise the
\* number of the text with its first comma read as a period and surrounding
\* whitespace trimmed is returned ("68" gives 68, "68,5" gives 68.5).
C9_ParseNumber ==
  pc = "done" =>
    LET conv == ToNumber(Trim(ReplaceFirstComma(input)))
        blank == \A i \in 1..Len(input) : input[i] \in WhiteSpace
    IN  /\ blank => parsed = Null
        /\ conv.kind \in {"NaN", "Infinity"} => parsed = Null
        /\ (~blank /\ conv.kind = "finite") => parsed = conv
        /\ parsed # Null => parsed.kind = "finite"
        /\ parsed = parseNumber(ReplaceFirstComma(input))
        /\ parsed = parseNumber(Trim(input))
        /\ input = <<"6", "8">> =>
             parsed = [kind |-> "finite", neg |-> FALSE, m |-> 68, e |-> 0]
        /\ input = <<"6", "8", ",", "5">> =>
             parsed = [kind |-> "finite", neg |-> FALSE, m |-> 685, e |-> -1]
        /\ input = <<"a", "b", "c">> => parsed = Null
        /\ input = <<"1", "e", "4", "0", "0">> => parsed = Null
        /\ input = InfinityLiteral => parsed = Null

\* C9 witness: "68,5" was parsed to 68.5.
C9_Witness ==
  /\ pc = "done"
  /\ input = <<"6", "8", ",", "5">>
  /\ parsed = [kind |-> "finite", neg |-> FALSE, m |-> 685, e |-> -1]

\* C10: a height or weight text change and a scale-width change leave the
\* stored result, its category, its scale target and the display state
\* unchanged.
C10_OnlyCalculateAndResetWrite ==
  [][\A v \in DOMAIN pages :
       event' \in {"setHeightCm", "setWeightKg", "setBarWidth"} =>
         /\ pages'[v].bmi = pages[v].bmi
         /\ category(v, pages'[v]) = category(v, pages[v])
         /\ pages'[v].progress = pages[v].progress
         /\ pages'[v].reveal = pages[v].reveal
         /\ DisplayState(pages'[v]) = DisplayState(pages[v])]_vars

\* C10 witness: a stored bmi of 25 outlives a height text that no longer
\* parses.
C10_Witness ==
  \E v \in DOMAIN pages :
    /\ event = "setHeightCm"
    /\ pages[v].heightCm = <<"a", "b", "c">>
    /\ pages[v].bmi = [n |-> 25, d |-> 1]
    /\ pages[v].progress.toValue = [n |-> 1, d |-> 2]

\* At most one sequence drives shakeX, and the offset rests at 0 when none
\* does.
OneShakeAtMost ==
  \A v \in DOMAIN pages :
    /\ Len(pages[v].shake.running) <= 1
    /\ pages[v].shake.running = << >> => pages[v].shake.pos = RatInt(0)

\* C11 as stated: rapid rejected Calculates never stack shakes; each one
\* replaces the shake in flight and restarts it from the offset the form
\* has at that moment, at most one sequence drives the offset, and the
\* offset is 0 once the last shake has finished.
C11_ShakeRestartsFromCurrent ==
  /\ []OneShakeAtMost
  /\ [][\A v \in DOMAIN pages :
          (event' = "onCalculate" /\ Outcome(pages[v]) = "Rejected") =>
            /\ Len(pages'[v].shake.running) = 1
            /\ pages'[v].shake.running[1].leg = 1
            /\ pages'[v].shake.running[1].anim.legs = shakeLegs
            /\ pages'[v].shake.running[1].from = pages[v].shake.pos]_vars

\* C11 amended: as above, but the new shake starts from the current offset
\* on the reanimated screen and from 0 on the Animated screen, which sets
\* the offset to 0 before it starts the sequence.
C11_ShakeReplacesInFlight ==
  /\ []OneShakeAtMost
  /\ [][\A v \in DOMAIN pages :
          (event' = "onCalculate" /\ Outcome(pages[v]) = "Rejected") =>
            /\ Len(pages'[v].shake.running) = 1
            /\ pages'[v].shake.running[1].leg = 1
            /\ pages'[v].shake.running[1].anim.legs = shakeLegs
            /\ pages'[v].shake.running[1].from =
                 IF v = "reanimated" THEN pages[v].shake.pos ELSE RatInt(0)
            /\ pages'[v].shake.pos = pages'[v].shake.running[1].from]_vars

\* C11 witness: a rejected Calculate pressed while an earlier shake had the
\* form at offset -10 restarted the shake from there.
C11_Witness ==
  \E v \in DOMAIN pages :
    /\ event = "onCalculate"
    /\ Len(pages[v].shake.running) = 1
    /\ pages[v].shake.running[1].leg = 1
    /\ pages[v].shake.running[1].from = RatInt(-10)

\* The animated values a handler started an animation on (an immediate
\* setValue starts none): shakeX is the shake, reveal the reveal or its
\* retraction, progress the fill or its retraction, indicatorPop the pop.
IntentKinds(intents) ==
  {intents[i].target : i \in {j \in DOMAIN intents : intents[j].anim.type # "value"}}

\* What the two screens are to agree on: texts, stored result, category
\* texts, reveal target and scale-position target.
SameDisplay(a, b) ==
  /\ pages[a].heightCm = pages[b].heightCm
  /\ pages[a].weightKg = pages[b].weightKg
  /\ pages[a].bmi = pages[b].bmi
  /\ pages[a].bmi # Null =>
       /\ category(a, pages[a]).label = category(b, pages[b]).label
       /\ category(a, pages[a]).rangeLabel = category(b, pages[b]).rangeLabel
       /\ category(a, pages[a]).hint = category(b, pages[b]).hint
  /\ pages[a].reveal.toValue = pages[b].reveal.toValue
  /\ pages[a].progress.toValue = pages[b].progress.toValue

\* C12: fed the same events, the two screens hold the same stored result,
\* category label, range and hint, reveal target and scale-position target
\* after every step, and every step emits the same kinds of intent on both.
C12_VariantsAgree ==
  \A a, b \in DOMAIN pages :
    /\ SameDisplay(a, b)
    /\ IntentKinds(pages[a].emitted) = IntentKinds(pages[b].emitted)

\* The number of tenths the BMI text shows.
ShownTenths(p) ==
  LET x == ToRat(parseNumber(bmiText(p)))
  IN  (10 * x.n) \div x.d

\* The BMI text has one decimal place and shows the stored value rounded
\* half-up.
ShownRounded(p) ==
  /\ Len(bmiText(p)) >= 3
  /\ bmiText(p)[Len(bmiText(p)) - 1] = "."
  /\ 2 * ShownTenths(p) * p.bmi.d - p.bmi.d <= 20 * p.bmi.n
  /\ 20 * p.bmi.n < 2 * ShownTenths(p) * p.bmi.d + p.bmi.d

\* C13 as stated: in every Result state the BMI text (the stored value
\* rounded half-up to one decimal) lies inside the range string of the
\* category shown beside it.
C13_ShownInsideRange ==
  \A v \in DOMAIN pages :
    LET p == pages[v]
        t == ShownTenths(p)
        r == category(v, p).rangeLabel
    IN  p.bmi # Null =>
          /\ ShownRounded(p)
          /\ r = "< 18.5" => t < 185
          /\ r = "18.5 - 24.9" => (185 <= t /\ t <= 249)
          /\ r = "25.0 - 29.9" => (250 <= t /\ t <= 299)
          /\ r = ">= 30.0" => 300 <= t

\* C13 amended: the BMI text lies inside the range string of the category
\* shown beside it or is the lower bound of the next category, which it is
\* when rounding carries a stored value up to that bound.
C13_ShownInsideRangeOrNextBound ==
  \A v \in DOMAIN pages :
    LET p == pages[v]
        t == ShownTenths(p)
        r == category(v, p).rangeLabel
    IN  p.bmi # Null =>
          /\ ShownRounded(p)
          /\ r = "< 18.5" => t <= 185
          /\ r = "18.5 - 24.9" => (185 <= t /\ t <= 250)
          /\ r = "25.0 - 29.9" => (250 <= t /\ t <= 300)
          /\ r = ">= 30.0" => 300 <= t

\* C13 witness: a stored 24.975 is shown as "25.0" beside "18.5 - 24.9".
C13_Witness ==
  \E v \in DOMAIN pages :
    /\ pages[v].bmi = [n |-> 999, d |-> 40]
    /\ bmiText(pages[v]) = <<"2", "5", ".", "0">>
    /\ category(v, pages[v]).rangeLabel = "18.5 - 24.9"

\* C14: after mount or onReset both texts are empty and their parsed values
\* absent, so a Calculate that follows at once is Rejected (Invalid, with a
\* shake); the parsed values onCalculate uses are always those of the
\* current texts, the texts change only by a text change or a Reset, and a
\* Calculate gives a Result only on texts that are both in range.
C14_NoResultWithoutTyping ==
  /\ [](\A v \in DOMAIN pages :
          LET p == pages[v]
          IN  /\ p.heightValue = parseNumber(p.heightCm)
              /\ p.weightValue = parseNumber(p.weightKg)
              /\ event \in {"mount", "onReset"} =>
                   /\ p.heightCm = << >>
                   /\ p.weightKg = << >>
                   /\ p.bmi = Null
                   /\ Rejected(onCalculate(v, p)))
  /\ [][\A v \in DOMAIN pages :
          /\ (event \in {"mount", "onReset"} /\ event' = "onCalculate") =>
               (Rejected(pages'[v]) /\ DisplayState(pages'[v]) = "Invalid")
          /\ (event' = "onCalculate" /\ pages'[v].bmi # Null) =>
               /\ pages[v].heightCm # << >>
               /\ pages[v].weightKg # << >>
               /\ Outcome(pages[v]) = "Accepted"
          /\ pages'[v].heightCm # pages[v].heightCm =>
               event' \in {"setHeightCm", "onReset"}
          /\ pages'[v].weightKg # pages[v].weightKg =>
               event' \in {"setWeightKg", "onReset"}]_vars

\* C14 witness: a Calculate on two empty texts was rejected with a shake.
C14_Witness ==
  \E v \in DOMAIN pages :
    /\ event = "onCalculate"
    /\ pages[v].heightCm = << >>
    /\ pages[v].weightKg = << >>
    /\ pages[v].heightValue = Null
    /\ Rejected(pages[v])

=============================================================================
